---- MODULE Spec2Model ----
(***************************************************************************)
(* Model of the market-analysis backend: DataFetcher (data_fetcher.py) and *)
(* the prediction cache of PredictionService (prediction.py).              *)
(*                                                                         *)
(* Tasks are asyncio coroutines on one event loop: a step of the model is  *)
(* the code a task runs between two suspension points (an awaited HTTP     *)
(* response or an awaited semaphore).                                      *)
(*                                                                         *)
(* Libraries are modelled at the versions the imports name:                *)
(*   circuitbreaker v1.4.0 - the decorator's wrapper is a plain function:  *)
(*     it tests `opened`, then runs `with self: return function(...)`.     *)
(*     For an `async def` that call only builds the coroutine object, so   *)
(*     the `with` block always exits without an exception.                 *)
(*   backoff v2.2.1 - on_exception wraps a target that is not a coroutine  *)
(*     function (the breaker's wrapper) with the synchronous retry loop,   *)
(*     which returns the coroutine object of the first call.               *)
(***************************************************************************)
EXTENDS Integers, Sequences, FiniteSets, TLC

\* ---------------------------------------------------------------- bounds
ApiRateLimit == 2      \* settings.api.API_RATE_LIMIT of the modelled deployment
MaxCalls == 2          \* fetch calls started in one behaviour of concurrent tasks
MaxSeqCalls == 7       \* fetch calls started in one behaviour of a single task
MaxSessions == 2       \* ClientSessions created in one behaviour
MaxItems == 1          \* items in one ticker response
MaxPredCalls == 3      \* predict_price calls started
MaxXvCalls == 2        \* fetch calls started in one behaviour with reconciliation
MaxXvItems == 2        \* items in one ticker response, with reconciliation
MaxSymbols == 201      \* symbols passed to one batch_update call
MaxBatchFetches == 3   \* slice fetches started in one behaviour of batch_update calls
MaxBreakerCalls == 3   \* fetch calls started in one behaviour through two fetchers

\* ------------------------------------------------------- program constants
SUPPORTED_EXCHANGES == <<"binance", "coingecko", "kraken", "huobi">>
MAX_RETRIES == 3
BATCH_SIZE == 100
\* market_data.py; prices are counted in units of 10^12, so that the limit
\* 1e15 of validate_price is 1000
PRICE_LIMIT == 1000
\* prediction.py
RISK_WINDOWS == {30, 60, 90}
\* floats are fixed-point numbers in units of 1/SCALE
SCALE == 10000
\* np.sqrt(252), in thousandths
SQRT_252_E3 == 15875
\* the daily risk-free rate 0.02/252, in units of 1e-5
RISK_FREE_DAILY_E5 == 8
MAX_PRICE_CHANGE_THRESHOLD_PCT == 25
ANOMALY_DETECTION_WINDOW == 24
RATE_LIMIT_BUFFER_PCT == 80
CIRCUIT_BREAKER_THRESHOLD_PCT == 50
RECOVERY_TIMEOUT == 30
API_ENDPOINTS == {"coingecko", "binance"}

\* the client tasks that share the fetcher
Procs == {1, 2}
Supported == {SUPPORTED_EXCHANGES[i] : i \in 1..Len(SUPPORTED_EXCHANGES)}
\* exchange arguments tried by callers: the two exchanges with an endpoint, one
\* supported exchange without an endpoint, and one unsupported exchange
ExchangeArgs == {"binance", "coingecko", "kraken", "bitfinex"}
\* items of a ticker response, by what MarketData(item) does with them:
\*   "good"     meets the field constraints and the object is built; line 74
\*              needs _calculate_quality_score, which market_data.py does not
\*              define, so this happens only where that method is supplied
\*   "unscored" meets the field constraints and line 74 raises AttributeError
\*   "bad"      has a symbol and breaks a field constraint (ValidationError)
\*   "nosymbol" has no 'symbol' key (ValidationError)
ItemKinds == {"good", "unscored", "bad", "nosymbol"}
WellFormed == {"good", "unscored"}
Responses == {"ok", "ClientError", "JSONDecodeError"}

\* int(settings.api.API_RATE_LIMIT * RATE_LIMIT_BUFFER)
RateLimit == (ApiRateLimit * RATE_LIMIT_BUFFER_PCT) \div 100

VARIABLES
    session,          \* DataFetcher._session: 0 is None, else a session id
    sessions,         \* state of every ClientSession created so far
    rate_limiters,    \* DataFetcher._rate_limiters: semaphore values
    exchange_stats,   \* DataFetcher._exchange_stats
    cb,               \* the CircuitBreaker instance decorating fetch_real_time_data
    now,              \* wall clock, seconds
    pc,               \* where each task is suspended
    loc,              \* locals of each task's running call
    last,             \* the call that the latest step finished, if it finished one
    block,            \* the session each task's `async with fetcher` created, 0 outside one
    ncalls,           \* fetch calls started so far
    hist,             \* history of the finished fetch_real_time_data calls
    tally,            \* per exchange, the counter increments made by finished calls
    prediction_cache, \* PredictionService._prediction_cache
    ploc,             \* locals of each task's running predict_price call
    plast,            \* the predict_price call that the latest step finished, if any
    npred,            \* predict_price calls started so far
    phist,            \* per key, the latest result a use_cache computation returned
    bloc,             \* locals of each task's running batch_update call
    blast,            \* the summary that the latest step's batch_update returned, if any
    vp,               \* the latest MarketData.validate_price call: arguments and result
    an                \* the running or latest analyze_trend / get_risk_metrics call

predVars == <<prediction_cache, ploc, plast, npred, phist>>
batchVars == <<bloc, blast>>
pureVars == <<vp, an>>
fetcherVars == <<session, sessions, rate_limiters, exchange_stats, cb, now, pc, loc,
                 last, block, ncalls, hist, tally>>
vars == <<session, sessions, rate_limiters, exchange_stats, cb, now, pc, loc,
          last, block, ncalls, hist, tally, prediction_cache, ploc, plast, npred, phist,
          bloc, blast, vp, an>>

\* verdicts lists the _validate_cross_exchange call made for each item of out
\* wellformed counts the items of the response that meet the field constraints
\* requests and errors count the `+= 1` statements the call has executed
NoLoc == [task |-> 0, op |-> "none", exchange |-> "none", validate |-> FALSE, sess |-> 0,
          items |-> <<>>, wellformed |-> 0, out |-> <<>>, verdicts |-> <<>>, attempts |-> 0,
          requests |-> 0, errors |-> 0]
NoResult == [task |-> 0, op |-> "none", exchange |-> "none", outcome |-> "none",
             attempts |-> 0, wellformed |-> 0, out |-> <<>>, verdicts |-> <<>>,
             requests |-> 0, errors |-> 0]

\* ---------------------------------------------------- prediction.py
PREDICTION_HORIZONS == {1, 7, 30, 90}
\* CONFIDENCE_LEVELS, in percent
CONFIDENCE_LEVELS_PCT == {68, 95, 99}
CACHE_TTL == 300
\* timedelta.seconds is the seconds part of days/seconds/microseconds
SECONDS_PER_DAY == 86400
Symbols == {"BTC"}
HorizonArgs == {7, 30, 14}
ConfidenceArgs == {95, 50}
PredOutcomes == {"ok", "KeyError", "ModelError"}
\* cache_key = f"{symbol}_{horizon}_{confidence_level}": the three parts, in order
CacheKey(sym, h, c) == <<sym, h, c>>
KeyArgs == {CacheKey(sym, h, c) : sym \in Symbols, h \in HorizonArgs, c \in ConfidenceArgs}
\* a key that is not in the dict
NoEntry == [data |-> 0, timestamp |-> 0]
NoStored == [data |-> 0, done |-> 0]
NoPLoc == [key |-> <<>>, use_cache |-> FALSE, id |-> 0]
NoPResult == [task |-> 0, key |-> <<>>, use_cache |-> FALSE, outcome |-> "none", data |-> 0,
              fetched |-> FALSE, predicted |-> FALSE]

\* -------------------------------------------------------- batch_update
\* locals of batch_update: the symbols are 1..n in input order; phase is where
\* the loop is suspended; started and outcomes list the slices fetched so far
NoBLoc == [phase |-> "none", n |-> 0, successful |-> 0, failed |-> 0, errors |-> <<>>,
           started |-> <<>>, outcomes |-> <<>>]
NoSummary == [status |-> "none", total |-> 0, successful |-> 0, failed |-> 0,
              errors |-> <<>>, started |-> <<>>, outcomes |-> <<>>]

\* the price that is not there: previous_price=None, or an alternate answer without one
NoPrice == -1
\* no validate_price call made yet
NoValidation == [called |-> FALSE, price |-> 0, after |-> 0, previous_price |-> NoPrice,
                 historical_prices |-> <<>>, result |-> "none"]
\* a float: a number in units of 1/SCALE, or one of nan, inf, -inf
Num(x) == [k |-> "num", v |-> x]
NaN == [k |-> "nan", v |-> 0]
PosInf == [k |-> "inf", v |-> 0]
NegInf == [k |-> "-inf", v |-> 0]
\* nothing returned or raised yet
\* samples: per window, the number of returns its metrics were computed over
NoReport == [outcome |-> "none", exc |-> "none", metrics |-> <<>>, risk_score |-> Num(0),
             direction |-> "none", samples |-> <<>>]
\* no analyze_trend / get_risk_metrics call made yet
\* requested: the indicators argument; indicators: the list the call works with
NoAnalysis == [op |-> "none", phase |-> "idle", windows |-> {}, requested |-> {},
               indicators |-> {}, limit |-> 0, closes |-> <<>>, result |-> NoReport]

Init ==
    /\ session = 0
    /\ sessions = <<>>
    /\ rate_limiters = [e \in Supported |-> RateLimit]
    /\ exchange_stats = [e \in Supported |-> [requests |-> 0, errors |-> 0, last_success |-> -1]]
    /\ cb = [state |-> "closed", failure_count |-> 0, opened |-> 0]
    /\ now = 0
    /\ pc = [p \in Procs |-> "idle"]
    /\ loc = [p \in Procs |-> NoLoc]
    /\ last = NoResult
    /\ block = [p \in Procs |-> 0]
    /\ ncalls = 0
    /\ hist = [finished |-> 0, failed |-> 0, consec |-> 0, failed_calls |-> {}]
    /\ tally = [e \in Supported |-> [requests |-> 0, errors |-> 0]]
    /\ prediction_cache = [k \in KeyArgs |-> NoEntry]
    /\ ploc = [p \in Procs |-> NoPLoc]
    /\ plast = NoPResult
    /\ npred = 0
    /\ phist = [k \in KeyArgs |-> NoStored]
    /\ bloc = [p \in Procs |-> NoBLoc]
    /\ blast = NoSummary
    /\ vp = NoValidation
    /\ an = NoAnalysis

\* ------------------------------------------------------------- helpers
SeqsUpTo(S, n) == UNION {[1..k -> S] : k \in 0..n}

\* asyncio.Semaphore: acquire() takes a slot, release() gives it back
Acquire(rl, e) == [rl EXCEPT ![e] = @ - 1]
Release(rl, e) == [rl EXCEPT ![e] = @ + 1]

\* self._exchange_stats[exchange]['errors'] += 1
IncErrors(st, e) == [st EXCEPT ![e].errors = @ + 1]
\* mutant of RecordSuccess: the counter is written from a value read before
\* the request was sent
RecordSuccessStale(st, e) == [st EXCEPT ![e].requests = 1, ![e].last_success = now]
\* requests += 1 and last_success = now, after a response was read
RecordSuccess(st, e) == [st EXCEPT ![e].requests = @ + 1, ![e].last_success = now]

\* ------------------------------------------------ circuitbreaker.circuit
\* CircuitBreaker.state: an open breaker is half-open once the recovery time passed
CbState(c) ==
    IF c.state = "open" /\ now - c.opened >= RECOVERY_TIMEOUT THEN "half_open" ELSE c.state
\* CircuitBreaker.opened
CbOpened(c) == CbState(c) = "open"
\* CircuitBreaker.__call_succeeded
CallSucceeded(c) == [c EXCEPT !.state = "closed", !.failure_count = 0]
\* CircuitBreaker.__call_failed: opens at _failure_count >= failure_threshold (0.5)
CallFailed(c) ==
    IF (c.failure_count + 1) * 100 >= CIRCUIT_BREAKER_THRESHOLD_PCT
    THEN [c EXCEPT !.failure_count = @ + 1, !.state = "open", !.opened = now]
    ELSE [c EXCEPT !.failure_count = @ + 1]
\* CircuitBreaker.__exit__ of `with self: return function(*args, **kwargs)`
BreakerExit(c, raised) == IF raised THEN CallFailed(c) ELSE CallSucceeded(c)
\* exceptions backoff.on_exception retries on
RetryOn == {"ClientError", "TimeoutError"}

\* ------------------------------------------------ effects of a task's step
Eff(rl, st, k, l, r) == [rl |-> rl, st |-> st, pc |-> k, loc |-> l, res |-> r]
Suspend(rl, st, k, l) == Eff(rl, st, k, l, NoResult)
Raise(rl, st, l, exc) ==
    Eff(rl, st, "idle", NoLoc,
        [task |-> l.task, op |-> l.op, exchange |-> l.exchange, outcome |-> exc,
         attempts |-> l.attempts, wellformed |-> l.wellformed, out |-> <<>>,
         verdicts |-> <<>>, requests |-> l.requests, errors |-> l.errors])
Return(rl, st, l) ==
    Eff(rl, st, "idle", NoLoc,
        [task |-> l.task, op |-> l.op, exchange |-> l.exchange, outcome |-> "ok",
         attempts |-> l.attempts, wellformed |-> l.wellformed, out |-> l.out,
         verdicts |-> l.verdicts, requests |-> l.requests, errors |-> l.errors])

\* history: calls finished, calls that raised, and the calls in a row, up to the
\* last one, that ended with a transport error
Log(h, outcome) ==
    [h EXCEPT !.finished = @ + 1,
              !.failed = @ + (IF outcome = "ok" THEN 0 ELSE 1),
              !.consec = IF outcome \in RetryOn THEN @ + 1 ELSE 0]
\* the same, remembering which fetcher and exchange every failed call was made to
LogCall(h, res) ==
    [Log(h, res.outcome) EXCEPT
        !.failed_calls = IF res.outcome = "ok" THEN @ ELSE @ \cup {<<res.op, res.exchange>>}]

Apply(p, eff) ==
    /\ rate_limiters' = eff.rl
    /\ exchange_stats' = eff.st
    /\ pc' = [pc EXCEPT ![p] = eff.pc]
    /\ loc' = [loc EXCEPT ![p] = eff.loc]
    /\ last' = eff.res

\* ------------------------------------------------- fetch_real_time_data
\* mutant of RtFail: the slot is not given back on the error path
RtFailNoRelease(rl, st, l, exc) ==
    Raise(rl, IncErrors(st, l.exchange), [l EXCEPT !.errors = @ + 1], exc)
\* lines 141-144, then the exit of `async with self._rate_limiters[exchange]`
RtFail(rl, st, l, exc) ==
    Raise(Release(rl, l.exchange), IncErrors(st, l.exchange), [l EXCEPT !.errors = @ + 1], exc)

\* the price field of a well-formed item of the ticker response
Price(item) == 105
\* what the alternate exchange answers: its price (5% below the item's price,
\* a little lower, or zero), or NoPrice, a body without a usable price
AltPrices == {0, 99, 100}
AltAnswers == AltPrices \cup {NoPrice}
\* mutant of CrossValid: a failed reconciliation rejects the observation
CrossValidFailClosed(resp, price, alt) ==
    IF resp # "ok" \/ alt = NoPrice \/ alt = 0 THEN FALSE
    ELSE LET d == IF price >= alt THEN price - alt ELSE alt - price IN
         100 * d <= 5 * alt
\* lines 283-294: the value _validate_cross_exchange returns; deviation is
\* abs(price - avg_price) / avg_price with the one alternate price as average
CrossValid(resp, price, alt) ==
    IF resp # "ok" \/ alt = NoPrice \/ alt = 0 THEN TRUE
    ELSE LET d == IF price >= alt THEN price - alt ELSE alt - price IN
         100 * d <= 5 * alt
\* a call of _validate_cross_exchange: what it was given and what it returned
Verdict(resp, price, alt) ==
    [price |-> price, alt |-> alt, returned |-> CrossValid(resp, price, alt)]

IsWellFormed(item) == item \in WellFormed
RECURSIVE RtLoop(_, _, _)
\* line 133: market_data.append(md) after _validate_cross_exchange returned v,
\* which line 132 does not look at
XvDone(rl, st, l, v) ==
    RtLoop(rl, st, [l EXCEPT !.items = Tail(@), !.out = Append(@, Head(l.items)),
                             !.verdicts = Append(@, v)])
\* _validate_cross_exchange, lines 278-283, holding a coingecko slot; a missing
\* session raises AttributeError, which line 292 turns into `return True`
XvRequest(rl, st, l) ==
    IF session = 0
    THEN XvDone(Release(rl, "coingecko"), st, l,
                Verdict("AttributeError", Price(Head(l.items)), NoPrice))
    ELSE Suspend(rl, st, "xv_http", [l EXCEPT !.sess = session])
\* _validate_cross_exchange, lines 273-277: of SUPPORTED_EXCHANGES[:2] only
\* coingecko is queried
XvStart(rl, st, l) ==
    IF rl["coingecko"] = 0
    THEN Suspend(rl, st, "xv_wait", l)
    ELSE XvRequest(Acquire(rl, "coingecko"), st, l)
\* the loop of lines 128-139 over the items not yet processed
RtLoop(rl, st, l) ==
    IF l.items = <<>>
    THEN Return(Release(rl, l.exchange), st, l)
    ELSE LET item == Head(l.items) IN
         CASE item \in {"bad", "unscored"} ->
                RtLoop(rl, IncErrors(st, l.exchange),
                       [l EXCEPT !.items = Tail(@), !.errors = @ + 1])
           [] item = "nosymbol" -> RtFail(rl, st, l, "KeyError")
           [] OTHER ->
                IF l.validate THEN XvStart(rl, st, l)
                ELSE RtLoop(rl, st, [l EXCEPT !.items = Tail(@), !.out = Append(@, item)])

\* lines 112-119, once the exchange's slot is held
RtRequest(rl, st, l) ==
    IF l.exchange \notin API_ENDPOINTS THEN RtFail(rl, st, l, "KeyError")
    ELSE IF session = 0 THEN RtFail(rl, st, l, "AttributeError")
    ELSE Suspend(rl, st, "rt_http", [l EXCEPT !.sess = session, !.attempts = @ + 1])

\* mutant of RtBody: the exchange is tested before the session
RtBodyExchangeFirst(l) ==
    IF l.exchange \notin Supported THEN Raise(rate_limiters, exchange_stats, l, "ValueError")
    ELSE IF session = 0 THEN Raise(rate_limiters, exchange_stats, l, "RuntimeError")
    ELSE IF rate_limiters[l.exchange] = 0 THEN Suspend(rate_limiters, exchange_stats, "rt_wait", l)
    ELSE RtRequest(Acquire(rate_limiters, l.exchange), exchange_stats, l)
\* lines 105-111: the coroutine body up to its first suspension
RtBody(l) ==
    IF session = 0 THEN Raise(rate_limiters, exchange_stats, l, "RuntimeError")
    ELSE IF l.exchange \notin Supported THEN Raise(rate_limiters, exchange_stats, l, "ValueError")
    ELSE IF rate_limiters[l.exchange] = 0 THEN Suspend(rate_limiters, exchange_stats, "rt_wait", l)
    ELSE RtRequest(Acquire(rate_limiters, l.exchange), exchange_stats, l)

\* `await fetcher.fetch_real_time_data(symbols, e, v)`: backoff's synchronous
\* retry loop calls the breaker's wrapper once; the wrapper raises
\* CircuitBreakerError when open, else builds the coroutine inside `with self`
\* (which exits without an exception) and the caller awaits it.
FetchRealTime(p, e, v, budget) ==
    /\ pc[p] = "idle"
    /\ ncalls < budget
    /\ ncalls' = ncalls + 1
    /\ LET l == [NoLoc EXCEPT !.task = p, !.op = "rt", !.exchange = e, !.validate = v] IN
       IF CbOpened(cb)
       THEN /\ "CircuitBreakerError" \notin RetryOn
            /\ cb' = cb
            /\ Apply(p, Raise(rate_limiters, exchange_stats, l, "CircuitBreakerError"))
       ELSE /\ cb' = BreakerExit(cb, FALSE)
            /\ Apply(p, RtBody(l))
    /\ UNCHANGED <<session, sessions, now, block>>

\* a fetch_real_time_data call whose arguments do not bind to the parameters
\* (a misspelt keyword, say): the breaker's wrapper calls the function inside
\* `with self`, the call raises TypeError there, before any coroutine exists, and
\* __exit__ records the failure; TypeError is not retried by backoff
IllFormedCall(p, e, budget) ==
    /\ pc[p] = "idle"
    /\ ncalls < budget
    /\ ncalls' = ncalls + 1
    /\ LET res(exc) == [NoResult EXCEPT !.task = p, !.op = "rt", !.exchange = e,
                                        !.outcome = exc]
       IN  IF CbOpened(cb)
           THEN cb' = cb /\ last' = res("CircuitBreakerError")
           ELSE /\ "TypeError" \notin RetryOn
                /\ cb' = BreakerExit(cb, TRUE)
                /\ last' = res("TypeError")
    /\ UNCHANGED <<session, sessions, rate_limiters, exchange_stats, now, pc, loc, block>>

\* a task waiting for the exchange's slot gets it
RtAcquire(p) ==
    /\ pc[p] = "rt_wait"
    /\ rate_limiters[loc[p].exchange] > 0
    /\ Apply(p, RtRequest(Acquire(rate_limiters, loc[p].exchange), exchange_stats, loc[p]))
    /\ UNCHANGED <<session, sessions, cb, now, block, ncalls>>

\* the ticker request completes: a parsed list, a transport error or timeout
\* (ClientError), or a body that is not JSON (JSONDecodeError)
RtRespond(p, resp, data) ==
    /\ pc[p] = "rt_http"
    /\ sessions[loc[p].sess] = "closed" => resp = "ClientError"
    /\ resp # "ok" => data = <<>>
    /\ IF resp = "ok"
       THEN Apply(p, RtLoop(rate_limiters, RecordSuccess(exchange_stats, loc[p].exchange),
                            [loc[p] EXCEPT !.items = data, !.requests = @ + 1,
                                           !.wellformed = Len(SelectSeq(data, IsWellFormed))]))
       ELSE Apply(p, RtFail(rate_limiters, exchange_stats, loc[p], resp))
    /\ UNCHANGED <<session, sessions, cb, now, block, ncalls>>

\* a task waiting inside _validate_cross_exchange gets a coingecko slot
XvAcquire(p) ==
    /\ pc[p] = "xv_wait"
    /\ rate_limiters["coingecko"] > 0
    /\ Apply(p, XvRequest(Acquire(rate_limiters, "coingecko"), exchange_stats, loc[p]))
    /\ UNCHANGED <<session, sessions, cb, now, block, ncalls>>

\* the reconciliation request completes with the alternate exchange's answer
\* or an error; _validate_cross_exchange returns a boolean
XvRespond(p, resp, alt) ==
    /\ pc[p] = "xv_http"
    /\ sessions[loc[p].sess] = "closed" => resp = "ClientError"
    /\ resp # "ok" => alt = NoPrice
    /\ Apply(p, XvDone(Release(rate_limiters, "coingecko"), exchange_stats, loc[p],
                       Verdict(resp, Price(Head(loc[p].items)), alt)))
    /\ UNCHANGED <<session, sessions, cb, now, block, ncalls>>

\* ------------------------------------------------- fetch_historical_data
\* lines 188-191, once binance's slot is held
HistRequest(rl, st, l, s) ==
    IF s = 0 THEN Raise(Release(rl, "binance"), st, l, "AttributeError")
    ELSE Suspend(rl, st, "hist_http", [l EXCEPT !.sess = s, !.attempts = @ + 1])

\* lines 167-188
FetchHistorical(p, budget) ==
    /\ pc[p] = "idle"
    /\ ncalls < budget
    /\ ncalls' = ncalls + 1
    /\ LET l == [NoLoc EXCEPT !.task = p, !.op = "hist", !.exchange = "binance"] IN
       IF session = 0 THEN Apply(p, Raise(rate_limiters, exchange_stats, l, "RuntimeError"))
       ELSE IF rate_limiters["binance"] = 0
            THEN Apply(p, Suspend(rate_limiters, exchange_stats, "hist_wait", l))
            ELSE Apply(p, HistRequest(Acquire(rate_limiters, "binance"), exchange_stats, l, session))
    /\ UNCHANGED <<session, sessions, cb, now, block>>

HistAcquire(p) ==
    /\ pc[p] = "hist_wait"
    /\ rate_limiters["binance"] > 0
    /\ Apply(p, HistRequest(Acquire(rate_limiters, "binance"), exchange_stats, loc[p], session))
    /\ UNCHANGED <<session, sessions, cb, now, block, ncalls>>

\* lines 191-211: the klines request completes
HistRespond(p, resp) ==
    /\ pc[p] = "hist_http"
    /\ sessions[loc[p].sess] = "closed" => resp = "ClientError"
    /\ IF resp = "ok"
       THEN Apply(p, Return(Release(rate_limiters, "binance"), exchange_stats, loc[p]))
       ELSE Apply(p, Raise(Release(rate_limiters, "binance"), exchange_stats, loc[p], resp))
    /\ UNCHANGED <<session, sessions, cb, now, block, ncalls>>

\* ------------------------------------------------ async context manager
\* __aenter__: a new ClientSession replaces whatever self._session held
AEnter(p) ==
    /\ pc[p] = "idle"
    /\ block[p] = 0
    /\ Len(sessions) < MaxSessions
    /\ sessions' = Append(sessions, "open")
    /\ session' = Len(sessions) + 1
    /\ block' = [block EXCEPT ![p] = Len(sessions) + 1]
    /\ last' = NoResult
    /\ UNCHANGED <<rate_limiters, exchange_stats, cb, now, pc, loc, ncalls>>

\* __aexit__, run when the block's body returned or raised
AExit(p) ==
    /\ pc[p] = "idle"
    /\ block[p] # 0
    /\ IF session # 0
       THEN /\ sessions' = [sessions EXCEPT ![session] = "closed"]
            /\ session' = 0
       ELSE UNCHANGED <<session, sessions>>
    /\ block' = [block EXCEPT ![p] = 0]
    /\ last' = NoResult
    /\ UNCHANGED <<rate_limiters, exchange_stats, cb, now, pc, loc, ncalls>>

\* time passes: the clock jumps to a later one of the instants observed
Tick(instants) ==
    /\ \E t \in instants : t > now /\ now' = t
    /\ last' = NoResult
    /\ UNCHANGED <<session, sessions, rate_limiters, exchange_stats, cb, pc, loc,
                   block, ncalls>>

\* ticker responses of the concurrent tasks: no item or one item of each kind
ConcItemLists == SeqsUpTo(ItemKinds, 1)
FetcherNext ==
    \/ \E p \in Procs : AEnter(p)
    \/ \E p \in Procs : AExit(p)
    \/ \E p \in Procs, e \in ExchangeArgs, v \in BOOLEAN : FetchRealTime(p, e, v, MaxCalls)
    \/ \E p \in Procs : RtAcquire(p)
    \/ \E p \in Procs, resp \in Responses, data \in ConcItemLists :
          RtRespond(p, resp, data)
    \/ \E p \in Procs : XvAcquire(p)
    \/ \E p \in Procs, resp \in Responses : XvRespond(p, resp, NoPrice)
    \/ \E p \in Procs : FetchHistorical(p, MaxCalls)
    \/ \E p \in Procs : HistAcquire(p)
    \/ \E p \in Procs, resp \in Responses : HistRespond(p, resp)

\* the increments of a call that finished are added to its exchange's tally
Tally(t, res) ==
    IF res.op = "rt" /\ res.exchange \in Supported
    THEN [t EXCEPT ![res.exchange].requests = @ + res.requests,
                   ![res.exchange].errors = @ + res.errors]
    ELSE t

\* concurrent tasks sharing one DataFetcher
Next ==
    FetcherNext /\ tally' = Tally(tally, last') /\ UNCHANGED hist /\ UNCHANGED predVars
    /\ UNCHANGED batchVars /\ UNCHANGED pureVars

Spec == Init /\ [][Next]_vars

\* concurrent fetch_real_time_data calls on the two exchanges with an endpoint,
\* under the scheduling the event loop gives them: every request in flight is
\* answered or times out (aiohttp's ClientTimeout), and a task waiting on an
\* asyncio.Semaphore, whose waiters are woken in FIFO order, gets a slot if
\* slots keep being released
LiveExchangeArgs == {"binance", "coingecko"}
LiveStep ==
    \/ \E p \in Procs : AEnter(p)
    \/ \E p \in Procs : AExit(p)
    \/ \E p \in Procs, e \in LiveExchangeArgs, v \in BOOLEAN : FetchRealTime(p, e, v, MaxCalls)
    \/ \E p \in Procs : RtAcquire(p)
    \/ \E p \in Procs, resp \in Responses, data \in ConcItemLists :
          RtRespond(p, resp, data)
    \/ \E p \in Procs : XvAcquire(p)
    \/ \E p \in Procs, resp \in Responses : XvRespond(p, resp, NoPrice)

LiveFrame ==
    UNCHANGED hist /\ UNCHANGED tally /\ UNCHANGED predVars /\ UNCHANGED batchVars
    /\ UNCHANGED pureVars
NextLive == LiveStep /\ LiveFrame

\* the request task p awaits is answered
Responsive(p) ==
    /\ WF_vars(LiveFrame /\ \E resp \in Responses, data \in ConcItemLists :
                                RtRespond(p, resp, data))
    /\ WF_vars(LiveFrame /\ \E resp \in Responses : XvRespond(p, resp, NoPrice))
\* task p, waiting for a slot, is given one
Served(p) ==
    /\ SF_vars(LiveFrame /\ RtAcquire(p))
    /\ SF_vars(LiveFrame /\ XvAcquire(p))
SpecLive == Init /\ [][NextLive]_vars /\ \A p \in Procs : Responsive(p) /\ Served(p)

\* one task calling fetch_real_time_data again and again, with the history of
\* its calls recorded
SeqTask == 1
SeqExchangeArgs == {"binance", "bitfinex"}
SeqInstants == {0, RECOVERY_TIMEOUT}
SeqStep ==
    \/ AEnter(SeqTask)
    \/ AExit(SeqTask)
    \/ \E e \in SeqExchangeArgs : FetchRealTime(SeqTask, e, FALSE, MaxSeqCalls)
    \/ \E e \in SeqExchangeArgs : IllFormedCall(SeqTask, e, MaxSeqCalls)
    \/ \E resp \in Responses, data \in SeqsUpTo(ItemKinds, MaxItems) :
          RtRespond(SeqTask, resp, data)
    \/ Tick(SeqInstants)

\* the step finished a fetch_real_time_data call of task p
Finished(p) ==
    /\ last'.task = p
    /\ last'.op = "rt"

NextSeq ==
    /\ SeqStep
    /\ hist' = IF Finished(SeqTask) THEN Log(hist, last'.outcome) ELSE hist
    /\ UNCHANGED tally
    /\ UNCHANGED predVars
    /\ UNCHANGED batchVars
    /\ UNCHANGED pureVars

SpecSeq == Init /\ [][NextSeq]_vars

\* fetch_real_time_data called on a second DataFetcher, which no `async with`
\* has entered: the decorators, and so the one CircuitBreaker they created when
\* the class body ran, are those of the first; the second fetcher's own
\* session is None, so the coroutine raises RuntimeError when awaited
OtherFetcherCall(p, e, budget) ==
    /\ pc[p] = "idle"
    /\ ncalls < budget
    /\ ncalls' = ncalls + 1
    /\ LET res(exc) == [NoResult EXCEPT !.task = p, !.op = "rt_other", !.exchange = e,
                                        !.outcome = exc]
       IN  IF CbOpened(cb)
           THEN cb' = cb /\ last' = res("CircuitBreakerError")
           ELSE cb' = BreakerExit(cb, FALSE) /\ last' = res("RuntimeError")
    /\ UNCHANGED <<session, sessions, rate_limiters, exchange_stats, now, pc, loc, block>>

\* one task calling both exchanges that have an endpoint through one fetcher,
\* and calling a second fetcher
BreakerExchangeArgs == {"binance", "coingecko"}
BreakerStep ==
    \/ AEnter(SeqTask)
    \/ AExit(SeqTask)
    \/ \E e \in BreakerExchangeArgs : FetchRealTime(SeqTask, e, FALSE, MaxBreakerCalls)
    \/ \E e \in BreakerExchangeArgs : IllFormedCall(SeqTask, e, MaxBreakerCalls)
    \/ \E resp \in Responses, data \in SeqsUpTo(ItemKinds, MaxItems) :
          RtRespond(SeqTask, resp, data)
    \/ \E e \in BreakerExchangeArgs : OtherFetcherCall(SeqTask, e, MaxBreakerCalls)
    \/ Tick(SeqInstants)

NextBreaker ==
    /\ BreakerStep
    /\ hist' = IF last'.op \in {"rt", "rt_other"} THEN LogCall(hist, last') ELSE hist
    /\ UNCHANGED tally
    /\ UNCHANGED predVars
    /\ UNCHANGED batchVars
    /\ UNCHANGED pureVars

SpecBreaker == Init /\ [][NextBreaker]_vars

\* one task fetching with validate_cross_exchange=True, with every answer of
\* the alternate exchange
XvStep ==
    \/ AEnter(SeqTask)
    \/ AExit(SeqTask)
    \/ FetchRealTime(SeqTask, "binance", TRUE, MaxXvCalls)
    \/ \E resp \in Responses, data \in SeqsUpTo(ItemKinds, MaxXvItems) :
          RtRespond(SeqTask, resp, data)
    \/ \E resp \in Responses, alt \in AltAnswers : XvRespond(SeqTask, resp, alt)

NextXv ==
    XvStep /\ UNCHANGED hist /\ UNCHANGED tally /\ UNCHANGED predVars /\ UNCHANGED batchVars
    /\ UNCHANGED pureVars

SpecXv == Init /\ [][NextXv]_vars

\* ======================================================================
\* PredictionService.predict_price
\* ======================================================================
PResult(p, a, outcome, d, f, m) ==
    [task |-> p, key |-> a.key, use_cache |-> a.use_cache, outcome |-> outcome,
     data |-> d, fetched |-> f, predicted |-> m]

\* mutant of ValidArgs: the confidence level is not checked
ValidArgsHorizonOnly(h, c) == h \in PREDICTION_HORIZONS
\* lines 89-93
ValidArgs(h, c) == h \in PREDICTION_HORIZONS /\ c \in CONFIDENCE_LEVELS_PCT

\* timedelta.seconds of a difference of age seconds
Seconds(age) == age % SECONDS_PER_DAY
\* mutant of CacheFresh: the comparison with CACHE_TTL reversed
CacheStale(cache, k) ==
    cache[k] # NoEntry /\ Seconds(now - cache[k].timestamp) >= CACHE_TTL
\* lines 97-99: cache_key in cache and (now - timestamp).seconds < CACHE_TTL
CacheFresh(cache, k) ==
    cache[k] # NoEntry /\ Seconds(now - cache[k].timestamp) < CACHE_TTL

\* mutant of CacheWrite: the entry is written whatever use_cache is
CacheWriteAlways(cache, k, uc, d) ==
    [cache EXCEPT ![k] = [data |-> d, timestamp |-> now]]
\* lines 148-153
CacheWrite(cache, k, uc, d) ==
    IF uc THEN [cache EXCEPT ![k] = [data |-> d, timestamp |-> now]] ELSE cache

\* lines 89-109: validation, cache lookup, then `async with self._data_fetcher`
\* up to the first suspension of fetch_historical_data
PredictStart(p, sym, h, c, uc) ==
    /\ pc[p] = "idle"
    /\ block[p] = 0
    /\ npred < MaxPredCalls
    /\ npred' = npred + 1
    /\ LET a == [key |-> CacheKey(sym, h, c), use_cache |-> uc, id |-> npred + 1]
           s == Len(sessions) + 1
           l == [NoLoc EXCEPT !.task = p, !.op = "hist", !.exchange = "binance"]
       IN  IF ~ValidArgs(h, c)
           THEN /\ plast' = PResult(p, a, "ValueError", 0, FALSE, FALSE)
                /\ last' = NoResult
                /\ UNCHANGED <<session, sessions, block, rate_limiters, exchange_stats,
                               pc, loc, ploc>>
           ELSE IF uc /\ CacheFresh(prediction_cache, a.key)
           THEN /\ plast' = PResult(p, a, "hit", prediction_cache[a.key].data, FALSE, FALSE)
                /\ last' = NoResult
                /\ UNCHANGED <<session, sessions, block, rate_limiters, exchange_stats,
                               pc, loc, ploc>>
           ELSE /\ sessions' = Append(sessions, "open")
                /\ session' = s
                /\ block' = [block EXCEPT ![p] = s]
                /\ IF rate_limiters["binance"] = 0
                   THEN Apply(p, Suspend(rate_limiters, exchange_stats, "hist_wait", l))
                   ELSE Apply(p, HistRequest(Acquire(rate_limiters, "binance"),
                                             exchange_stats, l, s))
                /\ ploc' = [ploc EXCEPT ![p] = a]
                /\ plast' = NoPResult
    /\ UNCHANGED <<prediction_cache, cb, now, ncalls>>

\* the task runs on with the fetch at eff: if the fetch is over, lines 76-80
\* (__aexit__) and lines 111-159
PredictResume(p, eff, rows, pred) ==
    /\ Apply(p, eff)
    /\ IF eff.pc # "idle"
       THEN /\ plast' = NoPResult
            /\ UNCHANGED <<session, sessions, block, prediction_cache, ploc>>
       ELSE /\ sessions' = IF session # 0 THEN [sessions EXCEPT ![session] = "closed"]
                           ELSE sessions
            /\ session' = 0
            /\ block' = [block EXCEPT ![p] = 0]
            /\ ploc' = [ploc EXCEPT ![p] = NoPLoc]
            /\ LET a == ploc[p]
                   f == eff.res.attempts > 0
               IN  IF eff.res.outcome # "ok"
                   THEN /\ plast' = PResult(p, a, eff.res.outcome, 0, f, FALSE)
                        /\ UNCHANGED prediction_cache
                   ELSE IF rows = "empty"
                   THEN /\ plast' = PResult(p, a, "ValueError", 0, f, FALSE)
                        /\ UNCHANGED prediction_cache
                   ELSE IF pred # "ok"
                   THEN /\ plast' = PResult(p, a, pred, 0, f, pred = "ModelError")
                        /\ UNCHANGED prediction_cache
                   ELSE /\ plast' = PResult(p, a, "computed", a.id, f, TRUE)
                        /\ prediction_cache' =
                              CacheWrite(prediction_cache, a.key, a.use_cache, a.id)
    /\ UNCHANGED <<cb, now, ncalls, npred>>

\* binance's slot becomes free for a predict_price call waiting in the fetch
PredictAcquire(p) ==
    /\ pc[p] = "hist_wait"
    /\ rate_limiters["binance"] > 0
    /\ PredictResume(p, HistRequest(Acquire(rate_limiters, "binance"), exchange_stats,
                                    loc[p], session), "some", "ok")

\* the klines request of a predict_price call completes
PredictFetched(p, resp, rows, pred) ==
    /\ pc[p] = "hist_http"
    /\ sessions[loc[p].sess] = "closed" => resp = "ClientError"
    /\ resp # "ok" => rows = "some" /\ pred = "ok"
    /\ rows = "empty" => pred = "ok"
    /\ PredictResume(p, IF resp = "ok"
                        THEN Return(Release(rate_limiters, "binance"), exchange_stats, loc[p])
                        ELSE Raise(Release(rate_limiters, "binance"), exchange_stats,
                                   loc[p], resp),
                     rows, pred)

PredInstants == {0, 299, 300, 86400}
PredictTick ==
    /\ Tick(PredInstants)
    /\ plast' = NoPResult
    /\ UNCHANGED <<prediction_cache, ploc, npred>>

PredictStep ==
    \/ \E p \in Procs, sym \in Symbols, h \in HorizonArgs, c \in ConfidenceArgs,
          uc \in BOOLEAN : PredictStart(p, sym, h, c, uc)
    \/ \E p \in Procs : PredictAcquire(p)
    \/ \E p \in Procs, resp \in Responses, rows \in {"some", "empty"},
          pred \in PredOutcomes : PredictFetched(p, resp, rows, pred)
    \/ PredictTick

\* concurrent predict_price calls on one PredictionService; phist keeps, per
\* key, the result the latest computation made with use_cache returned
NextPredict ==
    /\ PredictStep
    /\ phist' = IF plast'.outcome = "computed" /\ plast'.use_cache
                THEN [phist EXCEPT ![plast'.key] = [data |-> plast'.data, done |-> now]]
                ELSE phist
    /\ UNCHANGED hist
    /\ UNCHANGED tally
    /\ UNCHANGED batchVars
    /\ UNCHANGED pureVars

SpecPredict == Init /\ [][NextPredict]_vars

\* ======================================================================
\* DataFetcher.batch_update
\* ======================================================================
Min(a, b) == IF a < b THEN a ELSE b
\* line 240: range(0, len(symbols), BATCH_SIZE)
NumBatches(n) == (n + BATCH_SIZE - 1) \div BATCH_SIZE
\* line 240: symbols[i:i + BATCH_SIZE] for the k-th i, as first and last position
Batch(n, k) == [lo |-> (k - 1) * BATCH_SIZE + 1, hi |-> Min(k * BATCH_SIZE, n)]
BatchLen(b) == b.hi - b.lo + 1

\* mutant of BatchRecord: a failed slice counts as one failure
BatchRecordCountsOne(b, res) ==
    IF res.outcome = "ok"
    THEN [b EXCEPT !.phase = "sleep", !.successful = @ + Len(res.out),
                   !.outcomes = Append(@, "ok")]
    ELSE [b EXCEPT !.phase = "sleep", !.failed = @ + 1,
                   !.errors = Append(@, res.outcome),
                   !.outcomes = Append(@, res.outcome)]
\* lines 245-253: the slice's fetch returned or raised; then asyncio.sleep
BatchRecord(b, res) ==
    IF res.outcome = "ok"
    THEN [b EXCEPT !.phase = "sleep", !.successful = @ + Len(res.out),
                   !.outcomes = Append(@, "ok")]
    ELSE [b EXCEPT !.phase = "sleep", !.failed = @ + BatchLen(b.started[Len(b.started)]),
                   !.errors = Append(@, res.outcome),
                   !.outcomes = Append(@, res.outcome)]

\* the task's fetch made a step: if it is over, lines 246-253
BatchAfter(p, b) ==
    /\ bloc' = [bloc EXCEPT ![p] = IF pc'[p] = "idle" THEN BatchRecord(b, last') ELSE b]
    /\ blast' = NoSummary

\* lines 243-255: the next slice's fetch_real_time_data(batch), or the return
BatchLoop(p, b) ==
    IF Len(b.started) = NumBatches(b.n)
    THEN /\ blast' = [status |-> "done", total |-> b.n, successful |-> b.successful,
                      failed |-> b.failed, errors |-> b.errors, started |-> b.started,
                      outcomes |-> b.outcomes]
         /\ bloc' = [bloc EXCEPT ![p] = NoBLoc]
         /\ last' = NoResult
         /\ UNCHANGED <<session, sessions, rate_limiters, exchange_stats, cb, now, pc, loc,
                        block, ncalls>>
    ELSE /\ FetchRealTime(p, "binance", FALSE, MaxBatchFetches)
         /\ BatchAfter(p, [b EXCEPT !.phase = "fetch",
                                    !.started = Append(@, Batch(b.n, Len(b.started) + 1))])

\* lines 228-245
BatchUpdate(p, n) ==
    /\ pc[p] = "idle"
    /\ bloc[p].phase = "none"
    /\ ncalls + NumBatches(n) <= MaxBatchFetches
    /\ IF n = 0
       THEN /\ blast' = [NoSummary EXCEPT !.status = "error"]
            /\ last' = NoResult
            /\ UNCHANGED <<session, sessions, rate_limiters, exchange_stats, cb, now, pc, loc,
                           block, ncalls, bloc>>
       ELSE BatchLoop(p, [NoBLoc EXCEPT !.n = n])

\* line 253: asyncio.sleep(0.1) is over
BatchWake(p) ==
    /\ bloc[p].phase = "sleep"
    /\ BatchLoop(p, bloc[p])

BatchRtAcquire(p) ==
    /\ bloc[p].phase = "fetch"
    /\ RtAcquire(p)
    /\ BatchAfter(p, bloc[p])

BatchRtRespond(p, resp, data) ==
    /\ bloc[p].phase = "fetch"
    /\ RtRespond(p, resp, data)
    /\ BatchAfter(p, bloc[p])

BatchTask == 1
OtherTask == 2
\* lengths of the symbols argument: none, one, a full slice, one more, the most
SymbolCounts == {0, 1, BATCH_SIZE, BATCH_SIZE + 1, MaxSymbols}
BatchStep ==
    \/ \E n \in SymbolCounts : BatchUpdate(BatchTask, n)
    \/ BatchWake(BatchTask)
    \/ BatchRtAcquire(BatchTask)
    \/ \E resp \in Responses, data \in SeqsUpTo(ItemKinds, MaxItems) :
          BatchRtRespond(BatchTask, resp, data)
    \/ (AEnter(OtherTask) /\ UNCHANGED batchVars)
    \/ (AExit(OtherTask) /\ UNCHANGED batchVars)

\* one task running batch_update while another opens and closes the session
NextBatch ==
    BatchStep /\ UNCHANGED hist /\ UNCHANGED tally /\ UNCHANGED predVars /\ UNCHANGED pureVars

SpecBatch == Init /\ [][NextBatch]_vars

\* ======================================================================
\* MarketData.validate_price
\* ======================================================================
RECURSIVE SumSeq(_)
SumSeq(q) ==
    IF q = <<>> THEN 0
    ELSE IF Len(q) = 1 THEN q[1]
    ELSE SumSeq(SubSeq(q, 1, Len(q) \div 2)) + SumSeq(SubSeq(q, Len(q) \div 2 + 1, Len(q)))
\* n^2 times the sum of squared deviations of the window from its mean
RECURSIVE SqDev(_, _, _)
SqDev(q, n, total) ==
    IF q = <<>> THEN 0
    ELSE (n * Head(q) - total) * (n * Head(q) - total) + SqDev(Tail(q), n, total)

\* mutant of ZScoreAbove3: a zero standard deviation raises ZeroDivisionError
ZScoreAbove3Raising(price, window) ==
    LET n == Len(window)
        total == SumSeq(window)
        d == n * price - total
    IN  IF SqDev(window, n, total) = 0 THEN "raise"
        ELSE IF n * d * d > 9 * SqDev(window, n, total) THEN "yes" ELSE "no"
\* lines 165-171: z_score = abs(price - mean) / std > 3, in numpy float64
\* arithmetic: with std = 0 the quotient is inf (above 3) when the price is
\* off the mean and nan (not above 3) when it is the mean; nothing is raised.
\* |price - mean| / std > 3 is n * (n*price - total)^2 > 9 * SqDev.
ZScoreAbove3(price, window) ==
    LET n == Len(window)
        total == SumSeq(window)
        d == n * price - total
    IN  IF SqDev(window, n, total) = 0 THEN (IF d = 0 THEN "no" ELSE "yes")
        ELSE IF n * d * d > 9 * SqDev(window, n, total) THEN "yes" ELSE "no"

\* mutant of ChangeAbove: a change of exactly the threshold is rejected too
ChangeAboveOrEqual(price, prev) ==
    LET d == IF price >= prev THEN price - prev ELSE prev - price
    IN  prev > 0 /\ 100 * d >= MAX_PRICE_CHANGE_THRESHOLD_PCT * prev
\* lines 159-160: abs(price - previous_price) / previous_price > 0.25; the
\* quotient is not positive when previous_price is negative
ChangeAbove(price, prev) ==
    LET d == IF price >= prev THEN price - prev ELSE prev - price
    IN  prev > 0 /\ 100 * d > MAX_PRICE_CHANGE_THRESHOLD_PCT * prev

\* lines 153-174; prev = NoPrice is previous_price=None, window = <<>> is
\* historical_prices=None or []
ValidatePrice(price, prev, window) ==
    IF ~(0 < price /\ price < PRICE_LIMIT) THEN "False"
    ELSE IF prev # NoPrice /\ prev # 0 /\ ChangeAbove(price, prev) THEN "False"
    ELSE IF window # <<>> /\ Len(window) >= ANOMALY_DETECTION_WINDOW
         THEN CASE ZScoreAbove3(price, window) = "raise" -> "ZeroDivisionError"
                [] ZScoreAbove3(price, window) = "yes" -> "False"
                [] OTHER -> "True"
         ELSE "True"

\* observation.validate_price(previous_price, historical_prices): the method
\* assigns no field, so the observation's price after the call is the one before
ValidatePriceCall(price, prev, window) ==
    vp' = [called |-> TRUE, price |-> price, after |-> price, previous_price |-> prev,
           historical_prices |-> window, result |-> ValidatePrice(price, prev, window)]

Flat(n, c) == [i \in 1..n |-> c]
\* half the points 10 below 100, half 10 above: mean 100, standard deviation 10
TwoLevel(n) == [i \in 1..n |-> IF 2 * i <= n THEN 90 ELSE 110]
ObservedPrices == {0, 75, 100, 125, 126, 130, 131, PRICE_LIMIT}
PreviousPrices == {NoPrice, 0, 100, 104, -100}
HistoricalWindows ==
    {<<>>, Flat(ANOMALY_DETECTION_WINDOW - 1, 100), Flat(ANOMALY_DETECTION_WINDOW, 100),
     TwoLevel(ANOMALY_DETECTION_WINDOW)}

NextValidate ==
    /\ \E price \in ObservedPrices, prev \in PreviousPrices, window \in HistoricalWindows :
           ValidatePriceCall(price, prev, window)
    /\ UNCHANGED <<fetcherVars, predVars, batchVars, an>>

SpecValidate == Init /\ [][NextValidate]_vars

\* ======================================================================
\* PredictionService.get_risk_metrics and analyze_trend
\* ======================================================================
\* ---------------------------------------------------- float arithmetic
IsNaN(a) == a.k = "nan"
\* a > b in IEEE arithmetic: false when either side is nan
FGt(a, b) ==
    /\ ~IsNaN(a) /\ ~IsNaN(b)
    /\ \/ (a.k = "inf" /\ b.k # "inf")
       \/ (b.k = "-inf" /\ a.k # "-inf")
       \/ (a.k = "num" /\ b.k = "num" /\ a.v > b.v)
\* Python's max(a, b) and min(a, b): a, unless b is greater (smaller) than a
PyMax(a, b) == IF FGt(b, a) THEN b ELSE a
PyMin(a, b) == IF FGt(a, b) THEN b ELSE a
FAbs(a) ==
    IF a.k = "num" THEN Num(IF a.v < 0 THEN 0 - a.v ELSE a.v)
    ELSE IF IsNaN(a) THEN NaN ELSE PosInf
FNeg(a) ==
    IF a.k = "num" THEN Num(0 - a.v)
    ELSE IF IsNaN(a) THEN NaN ELSE IF a.k = "inf" THEN NegInf ELSE PosInf
FAdd(a, b) ==
    IF IsNaN(a) \/ IsNaN(b) THEN NaN
    ELSE IF a.k = "num" /\ b.k = "num" THEN Num(a.v + b.v)
    ELSE IF a.k = "num" THEN b
    ELSE IF b.k = "num" \/ b.k = a.k THEN a
    ELSE NaN
\* a * (c / d) for positive integers c and d
FTimes(a, c, d) == IF a.k = "num" THEN Num((a.v * c) \div d) ELSE a

LastK(q, k) == IF Len(q) <= k THEN q ELSE SubSeq(q, Len(q) - k + 1, Len(q))
Diffs(q) == [i \in 1..(Len(q) - 1) |-> q[i + 1] - q[i]]
MaxOf(S) == CHOOSE x \in S : \A y \in S : y <= x
\* sum of the squared distances of the points of q from c
RECURSIVE SumSq(_, _)
SumSq(q, c) ==
    IF q = <<>> THEN 0
    ELSE IF Len(q) = 1 THEN (q[1] - c) * (q[1] - c)
    ELSE SumSq(SubSeq(q, 1, Len(q) \div 2), c) + SumSq(SubSeq(q, Len(q) \div 2 + 1, Len(q)), c)
\* the integer square root, by bisection on lo..hi
RECURSIVE SqrtIn(_, _, _)
SqrtIn(x, lo, hi) ==
    IF lo >= hi THEN lo
    ELSE LET mid == (lo + hi + 1) \div 2
         IN  IF mid * mid <= x THEN SqrtIn(x, mid, hi) ELSE SqrtIn(x, lo, mid - 1)
ISqrt(x) == SqrtIn(x, 0, IF x < 46340 THEN x ELSE 46340)

\* ------------------------------------------------------- risk metrics
\* line 258: np.log(close / close.shift(1)).dropna(), in units of 1/SCALE;
\* ln(a/b) is taken as 2(a-b)/(a+b), which is 0 exactly when a = b
LogReturns(closes) ==
    [i \in 1..(Len(closes) - 1) |->
        (2 * SCALE * (closes[i + 1] - closes[i])) \div (closes[i + 1] + closes[i])]
\* np.percentile(returns, p) of a non-empty series: linear interpolation
\* between the two nearest ranks
Percentile(r, p) ==
    LET s == SortSeq(r, LAMBDA a, b : a < b)
        m == Len(r)
        pos == (m - 1) * p
        lo == pos \div 100 + 1
        hi == IF lo < m THEN lo + 1 ELSE lo
    IN  s[lo] + ((pos % 100) * (s[hi] - s[lo])) \div 100
\* mutant of MeanAtMost: the mean of the returns at or above v
MeanAtLeast(r, v) ==
    LET AtLeast(x) == x >= v
        sel == SelectSeq(r, AtLeast)
    IN  IF sel = <<>> THEN NaN ELSE Num(SumSeq(sel) \div Len(sel))
\* returns[returns <= v].mean()
MeanAtMost(r, v) ==
    LET AtMost(x) == x <= v
        sel == SelectSeq(r, AtMost)
    IN  IF sel = <<>> THEN NaN ELSE Num(SumSeq(sel) \div Len(sel))
\* Series.std() of two or more points (ddof = 1), in units of 1e-5
Std5(r) ==
    LET mean == SumSeq(r) \div Len(r)
    IN  ISqrt((SumSq(r, mean) * 100) \div (Len(r) - 1))
\* returns.std() * np.sqrt(252); the std of fewer than 2 points is nan
Volatility(r) ==
    IF Len(r) <= 1 THEN NaN ELSE Num((Std5(r) * SQRT_252_E3) \div 10000)
\* lines 272-273: np.sqrt(252) * excess_returns.mean() / returns.std(), a
\* float64 division: by a zero std it is inf, -inf or nan, by a nan std nan
SharpeRatio(r) ==
    LET excess == (10 * SumSeq(r)) \div Len(r) - RISK_FREE_DAILY_E5
    IN  IF Len(r) <= 1 THEN NaN
        ELSE IF Std5(r) = 0
             THEN (IF excess > 0 THEN PosInf ELSE IF excess < 0 THEN NegInf ELSE NaN)
        ELSE Num((SQRT_252_E3 * excess * 10) \div Std5(r))
\* lines 276-279: the lowest of cumulative / running maximum - 1 over the
\* cumulative products of 1 + return
RECURSIVE CumFrom(_, _)
CumFrom(r, prev) ==
    IF r = <<>> THEN <<>>
    ELSE LET y == (prev * (SCALE + Head(r))) \div SCALE
         IN  <<y>> \o CumFrom(Tail(r), y)
\* the same, ten points at a time
RECURSIVE CumBlocks(_, _)
CumBlocks(r, prev) ==
    IF Len(r) <= 10 THEN CumFrom(r, prev)
    ELSE LET block10 == CumFrom(SubSeq(r, 1, 10), prev)
         IN  block10 \o CumBlocks(SubSeq(r, 11, Len(r)), block10[10])
\* (1 + returns).cumprod()
CumProd(r) == CumBlocks(r, SCALE)
MinOf(S) == CHOOSE x \in S : \A y \in S : x <= y
MaxDrawdown(r) ==
    LET cumulative_returns == CumProd(r)
        rolling_max == [i \in 1..Len(r) |-> MaxOf({cumulative_returns[j] : j \in 1..i})]
        drawdowns == [i \in 1..Len(r) |->
                         (cumulative_returns[i] * SCALE) \div rolling_max[i] - SCALE]
    IN  IF r = <<>> THEN NaN ELSE Num(MinOf({drawdowns[i] : i \in 1..Len(r)}))

RiskFields == {"var_95", "var_99", "cvar_95", "cvar_99", "volatility", "sharpe_ratio",
               "max_drawdown"}
\* lines 257-293, for a window with at least one return
WindowMetric(closes, window, field) ==
    LET r == LogReturns(LastK(closes, window))
    IN  CASE field = "var_95" -> Num(Percentile(r, 5))
          [] field = "var_99" -> Num(Percentile(r, 1))
          [] field = "cvar_95" -> MeanAtMost(r, Percentile(r, 5))
          [] field = "cvar_99" -> MeanAtMost(r, Percentile(r, 1))
          [] field = "volatility" -> Volatility(r)
          [] field = "sharpe_ratio" -> SharpeRatio(r)
          [] field = "max_drawdown" -> MaxDrawdown(r)
\* risk_metrics[f"{window}d"][field], keyed by <<window, field>>
RiskMetrics(closes, windows) ==
    [key \in windows \X RiskFields |-> WindowMetric(closes, key[1], key[2])]

\* line 438: min(max(risk_score * 100, 0), 100)
Clamp(x) == PyMin(PyMax(x, Num(0)), Num(100 * SCALE))
\* lines 416-438, over the 30-day window
RiskScore(metrics) ==
    LET var == FAbs(metrics[<<30, "var_95">>])
        volatility == metrics[<<30, "volatility">>]
        sharpe == FTimes(PyMax(Num(0), FAdd(Num(3 * SCALE), FNeg(metrics[<<30, "sharpe_ratio">>]))), 1, 3)
        drawdown == FAbs(metrics[<<30, "max_drawdown">>])
        risk_score == FAdd(FAdd(FAdd(FAdd(Num(0), FTimes(var, 3, 10)),
                                     FTimes(volatility, 3, 10)),
                                FTimes(sharpe, 2, 10)),
                           FTimes(drawdown, 2, 10))
    IN  Clamp(FTimes(risk_score, 100, 1))

Returned(metrics, score) ==
    [NoReport EXCEPT !.outcome = "report", !.metrics = metrics, !.risk_score = score]
Raised(exc) == [NoReport EXCEPT !.outcome = "raise", !.exc = exc]
\* lines 252-304 on the fetched closes: an empty frame raises ValueError;
\* np.percentile (numpy 1.24) raises IndexError on the empty returns of a
\* single close; _calculate_risk_score reads risk_metrics['30d']
GetRiskMetrics(closes, windows) ==
    IF closes = <<>> THEN Raised("ValueError")
    ELSE IF Len(closes) = 1 \/ 1 \in windows THEN Raised("IndexError")
    ELSE IF 30 \notin windows THEN Raised("KeyError")
    ELSE [Returned(RiskMetrics(closes, windows), RiskScore(RiskMetrics(closes, windows)))
             EXCEPT !.samples = [w \in windows |-> Len(LogReturns(LastK(closes, w)))]]

\* ----------------------------------------------------- trend analysis
\* Series.rolling(window).mean().iloc[-1]: nan with fewer points than window
RollingMean(q, window) ==
    IF Len(q) < window THEN NaN
    ELSE Num((SumSeq(LastK(q, window)) * SCALE) \div window)
\* Series.rolling(window).std().iloc[-1] (ddof = 1)
RollingStd(q, window) ==
    IF Len(q) < window THEN NaN
    ELSE LET w == LastK(q, window)
             total == SumSeq(w)
             scaled == [i \in 1..window |-> window * w[i]]
         IN  Num(ISqrt((SumSq(scaled, total) * 100) \div (window * window * (window - 1)))
                 * (SCALE \div 10))
\* Series.mean() of the valid points: nan when there is none
MeanOf(q) == IF q = <<>> THEN NaN ELSE Num(SumSeq(q) \div Len(q))
\* Series.ewm(span, adjust=False).mean() of a series in units of 1/SCALE
RECURSIVE EwmFrom(_, _, _)
EwmFrom(q, span, prev) ==
    IF q = <<>> THEN <<>>
    ELSE LET y == ((span - 1) * prev + 2 * Head(q)) \div (span + 1)
         IN  <<y>> \o EwmFrom(Tail(q), span, y)
\* the same, ten points at a time
RECURSIVE EwmBlocks(_, _, _)
EwmBlocks(q, span, prev) ==
    IF Len(q) <= 10 THEN EwmFrom(q, span, prev)
    ELSE LET block10 == EwmFrom(SubSeq(q, 1, 10), span, prev)
         IN  block10 \o EwmBlocks(SubSeq(q, 11, Len(q)), span, block10[10])
Ewm(q, span) == IF q = <<>> THEN <<>> ELSE <<Head(q)>> \o EwmBlocks(Tail(q), span, Head(q))

\* lines 338-340: the gains (losses) of delta = close.diff(); the first
\* delta is nan and counts as 0
Gains(closes) ==
    [i \in 1..Len(closes) |->
        IF i > 1 /\ closes[i] > closes[i - 1] THEN closes[i] - closes[i - 1] ELSE 0]
Losses(closes) ==
    [i \in 1..Len(closes) |->
        IF i > 1 /\ closes[i] < closes[i - 1] THEN closes[i - 1] - closes[i] ELSE 0]
\* lines 337-342: 100 - 100 / (1 + gain / loss) over the last 14 points; with
\* no loss the quotient is inf (rsi 100) or, with no gain either, nan
Rsi(closes) ==
    LET gain == SumSeq(LastK(Gains(closes), 14))
        loss == SumSeq(LastK(Losses(closes), 14))
    IN  IF Len(closes) < 14 THEN NaN
        ELSE IF loss = 0 THEN (IF gain = 0 THEN NaN ELSE Num(100 * SCALE))
        ELSE Num((100 * SCALE * gain) \div (gain + loss))
\* lines 344-353
Macd(closes) ==
    LET scaled == [i \in 1..Len(closes) |-> closes[i] * SCALE]
        exp1 == Ewm(scaled, 12)
        exp2 == Ewm(scaled, 26)
    IN  [i \in 1..Len(closes) |-> exp1[i] - exp2[i]]
MacdSignal(closes) == Ewm(Macd(closes), 9)
MacdHistogram(closes) ==
    Macd(closes)[Len(closes)] - MacdSignal(closes)[Len(closes)]

\* line 368 and 323: close.pct_change() without its leading nan
PctChange(closes) ==
    [i \in 1..(Len(closes) - 1) |->
        ((closes[i + 1] - closes[i]) * SCALE) \div closes[i]]

\* lines 385-398: direction and strength of the trend; a comparison with a
\* nan moving average is false
Direction(closes) ==
    LET short_ma == RollingMean(closes, 10)
        long_ma == RollingMean(closes, 30)
        current_price == Num(closes[Len(closes)] * SCALE)
    IN  IF FGt(current_price, short_ma) /\ FGt(short_ma, long_ma) THEN "bullish"
        ELSE IF FGt(short_ma, current_price) /\ FGt(long_ma, short_ma) THEN "bearish"
        ELSE "neutral"
\* mutant of Strength: without the cap at 100
StrengthUncapped(closes) ==
    LET long_ma == RollingMean(closes, 30).v
        current_price == closes[Len(closes)] * SCALE
        gap == IF Direction(closes) = "bullish" THEN current_price - long_ma
               ELSE long_ma - current_price
    IN  IF Direction(closes) = "neutral" THEN Num(0)
        ELSE Num((gap * 1000) \div (long_ma \div 1000))
Strength(closes) ==
    LET long_ma == RollingMean(closes, 30).v
        current_price == closes[Len(closes)] * SCALE
        gap == IF Direction(closes) = "bullish" THEN current_price - long_ma
               ELSE long_ma - current_price
    IN  IF Direction(closes) = "neutral" THEN Num(0)
        ELSE PyMin(Num((gap * 1000) \div (long_ma \div 1000)), Num(100 * SCALE))
\* lines 401-407
Confidence(closes, indicators) ==
    LET rsi == IF "rsi" \notin indicators THEN 0
               ELSE IF FGt(Rsi(closes), Num(50 * SCALE)) THEN 1 ELSE -1
        macd == IF "macd" \notin indicators THEN 0
                ELSE IF MacdHistogram(closes) > 0 THEN 1 ELSE -1
        signals == Cardinality(indicators \cap {"rsi", "macd"})
        total == IF rsi + macd < 0 THEN 0 - (rsi + macd) ELSE rsi + macd
    IN  IF signals = 0 THEN Num(SCALE \div 2) ELSE Num((total * SCALE) \div signals)

IndicatorFields ==
    [rsi |-> {"rsi"},
     macd |-> {"macd.macd", "macd.signal", "macd.histogram"},
     bollinger |-> {"bollinger.middle", "bollinger.upper", "bollinger.lower"}]
TrendFields(indicators) ==
    {"strength", "confidence", "analysis_quality", "momentum_1d", "momentum_7d",
     "momentum_30d", "acceleration", "volatility"}
    \cup UNION {IndicatorFields[i] : i \in indicators}
\* lines 190-220: each number of the report of a non-empty series
TrendMetric(closes, indicators, field) ==
    LET n == Len(closes)
        returns == PctChange(closes)
    IN  CASE field = "strength" -> Strength(closes)
          [] field = "confidence" -> Confidence(closes, indicators)
          [] field = "analysis_quality" -> Num((n * SCALE) \div 90)
          [] field = "momentum_1d" ->
                 IF returns = <<>> THEN NaN ELSE Num(returns[Len(returns)])
          [] field = "momentum_7d" -> MeanOf(LastK(returns, 7))
          [] field = "momentum_30d" -> MeanOf(LastK(returns, 30))
          [] field = "acceleration" -> MeanOf(LastK(Diffs(returns), 7))
          [] field = "volatility" -> Volatility(returns)
          [] field = "rsi" -> Rsi(closes)
          [] field = "macd.macd" -> Num(Macd(closes)[n])
          [] field = "macd.signal" -> Num(MacdSignal(closes)[n])
          [] field = "macd.histogram" -> Num(MacdHistogram(closes))
          [] field = "bollinger.middle" -> RollingMean(closes, 20)
          [] field = "bollinger.upper" ->
                 FAdd(RollingMean(closes, 20), FTimes(RollingStd(closes, 20), 2, 1))
          [] field = "bollinger.lower" ->
                 FAdd(RollingMean(closes, 20), FNeg(FTimes(RollingStd(closes, 20), 2, 1)))
\* lines 187-220 on the fetched closes; the report carries no risk score
AnalyzeTrend(closes, indicators) ==
    IF closes = <<>> THEN Raised("ValueError")
    ELSE [Returned([f \in TrendFields(indicators) |-> TrendMetric(closes, indicators, f)],
                   Num(0))
             EXCEPT !.direction = Direction(closes)]

\* ------------------------------------------------------------ the calls
\* get_risk_metrics(symbol, windows) up to its fetch; no windows (None or
\* []) stands for RISK_WINDOWS
RiskCall(windows) ==
    /\ an.phase \in {"idle", "done"}
    /\ an' = [NoAnalysis EXCEPT !.op = "get_risk_metrics", !.phase = "fetching",
                                !.windows = IF windows = {} THEN RISK_WINDOWS ELSE windows,
                                !.limit = MaxOf(IF windows = {} THEN RISK_WINDOWS ELSE windows)]
\* analyze_trend(symbol, window_size, indicators) up to its fetch; no
\* indicators stands for rsi, macd and bollinger
TrendCall(window_size, indicators) ==
    /\ an.phase \in {"idle", "done"}
    /\ an' = [NoAnalysis EXCEPT !.op = "analyze_trend", !.phase = "fetching",
                                !.windows = {window_size},
                                !.requested = indicators,
                                !.indicators = IF indicators = {}
                                               THEN {"rsi", "macd", "bollinger"}
                                               ELSE indicators,
                                !.limit = window_size]
\* fetch_historical_data returned a frame of at most min(BATCH_SIZE, limit)
\* daily closes, and the rest of the call ran
Fetched(closes) ==
    /\ an.phase = "fetching"
    /\ Len(closes) <= Min(BATCH_SIZE, an.limit)
    /\ an' = [an EXCEPT !.phase = "done", !.closes = closes,
                        !.result = IF an.op = "get_risk_metrics"
                                   THEN GetRiskMetrics(closes, an.windows)
                                   ELSE AnalyzeTrend(closes, an.indicators)]
\* fetch_historical_data raised: logged and raised again
FetchFailed(exc) ==
    /\ an.phase = "fetching"
    /\ an' = [an EXCEPT !.phase = "done", !.result = Raised(exc)]

\* the series the exchange may answer with: equal closes, closes rising or
\* falling by 1 a day, closes alternating between 100 and 102, and closes that
\* stay at 10 for 20 days, then rise by a tenth a day for 10 days to 26
SeriesLengths == {0, 1, 2, 3, 7, 14, 20, 30, 60, 90, BATCH_SIZE}
Surge == <<11, 12, 13, 14, 16, 17, 19, 21, 24, 26>>
Closes(shape, n) ==
    [i \in 1..n |-> CASE shape = "flat" -> 100
                      [] shape = "rising" -> 100 + i
                      [] shape = "falling" -> 200 - i
                      [] shape = "zigzag" -> IF i % 2 = 1 THEN 100 ELSE 102
                      [] shape = "surging" ->
                             IF i <= 20 THEN 10 ELSE IF i <= 30 THEN Surge[i - 20] ELSE 26]
SeriesShapes == {"flat", "rising", "falling", "zigzag", "surging"}
CloseSeries == {Closes(shape, n) : shape \in SeriesShapes, n \in SeriesLengths}
WindowArgs == {{}, {7, 30}, {7}}
WindowSizes == {7, 14, 30, BATCH_SIZE}
IndicatorArgs == {{}, {"macd"}, {"bollinger"}}

NextAnalysis ==
    /\ \/ \E windows \in WindowArgs : RiskCall(windows)
       \/ \E window_size \in WindowSizes, indicators \in IndicatorArgs :
              TrendCall(window_size, indicators)
       \/ \E closes \in CloseSeries : Fetched(closes)
       \/ \E exc \in {"ClientError"} : FetchFailed(exc)
    /\ UNCHANGED <<fetcherVars, predVars, batchVars, vp>>

SpecAnalysis == Init /\ [][NextAnalysis]_vars

\* ======================================================================
\* Claims about DataFetcher
\* ======================================================================
HttpStates == {"rt_http", "xv_http", "hist_http"}
\* the step starts a fetch call
CallStarted == ncalls' = ncalls + 1
\* the exchange argument of the call task p started in this step
CallExchange(p) == IF pc'[p] = "idle" THEN last'.exchange ELSE loc'[p].exchange
\* the step issues a network request of task p
Issued(p) == pc'[p] \in HttpStates /\ (pc[p] # pc'[p] \/ loc[p] # loc'[p])

\* C1 (as claimed): while the breaker is open, and after 6 calls in a row that
\* failed with transport errors, a call has no ticker request in flight: it
\* fails fast.
C1_FailsFastAfterSixFailures ==
    (CbOpened(cb) \/ hist.consec >= 6) => pc[SeqTask] # "rt_http"

\* C2 (as claimed): whenever at most half of the finished calls have failed,
\* the breaker is not open, a call started then is not rejected by the breaker,
\* and, when its arguments bind, it issues its request if a session is open,
\* the exchange has an endpoint and a slot is free.
C2_ClosedWhileAtMostHalfFailed ==
    [][(2 * hist.failed <= hist.finished) =>
          /\ ~CbOpened(cb)
          /\ CallStarted =>
                /\ last'.outcome # "CircuitBreakerError"
                /\ (session # 0 /\ CallExchange(SeqTask) \in API_ENDPOINTS
                      /\ rate_limiters[CallExchange(SeqTask)] > 0
                      /\ last'.outcome # "TypeError")
                   => pc'[SeqTask] = "rt_http"]_vars

\* C3 (as claimed): a call that ends with a transport error has made exactly
\* MAX_RETRIES requests, no call makes more, and a call that ends with a
\* malformed response has made exactly one.
C3_ThreeAttemptsThenSurface ==
    last.op = "rt" =>
        /\ last.outcome \in RetryOn => last.attempts = MAX_RETRIES
        /\ last.attempts <= MAX_RETRIES
        /\ last.outcome = "JSONDecodeError" => last.attempts = 1

\* requests in flight to exchange e
InFlight(e) ==
    Cardinality({p \in Procs :
        \/ pc[p] = "rt_http" /\ loc[p].exchange = e
        \/ pc[p] = "xv_http" /\ e = "coingecko"
        \/ pc[p] = "hist_http" /\ e = "binance"})
\* slots of e's semaphore that tasks hold: the slot of the call itself, and the
\* coingecko slot taken inside _validate_cross_exchange
Held(e) ==
    Cardinality({p \in Procs :
        \/ pc[p] \in {"rt_http", "xv_wait", "xv_http"} /\ loc[p].exchange = e
        \/ pc[p] = "hist_http" /\ e = "binance"})
    + Cardinality({p \in Procs : pc[p] = "xv_http" /\ e = "coingecko"})
Waiting(e) ==
    {p \in Procs :
        \/ pc[p] = "rt_wait" /\ loc[p].exchange = e
        \/ pc[p] = "xv_wait" /\ e = "coingecko"
        \/ pc[p] = "hist_wait" /\ e = "binance"}

\* C4: the requests in flight to an exchange never exceed
\* floor(API_RATE_LIMIT * 0.8); the free slots and the slots held always add up
\* to that limit, so a finished call holds none; and a request is issued only by
\* a task that took a free slot.
C4_InFlightBounded ==
    \A e \in Supported :
        /\ InFlight(e) <= RateLimit
        /\ rate_limiters[e] >= 0
        /\ rate_limiters[e] + Held(e) = RateLimit
C4_Witness ==
    \E e \in Supported : InFlight(e) = RateLimit /\ Waiting(e) # {}

\* C9 (as claimed): a request is issued only while the fetcher holds an open
\* session, a fetch call made with no session raises without a request, and
\* when a task leaves its `async with` block the session that block created is
\* closed and the fetcher holds none.
C9_SessionScoped ==
    [][\A p \in Procs :
          /\ Issued(p) => session # 0 /\ sessions[session] = "open"
          /\ (CallStarted /\ session = 0 /\ last'.task = p) =>
                last'.outcome \notin {"ok", "none"} /\ last'.attempts = 0
          /\ (block[p] # 0 /\ block'[p] = 0) =>
                session' = 0 /\ sessions'[block[p]] = "closed"]_vars

\* the step is a fetch_real_time_data call with an unsupported exchange
UnsupportedCall == CallStarted /\ last'.op = "rt" /\ last'.exchange \notin Supported
VerdictsSeen ==
    {loc[SeqTask].verdicts[k] : k \in 1..Len(loc[SeqTask].verdicts)}
    \cup {last.verdicts[k] : k \in 1..Len(last.verdicts)}
\* |price - alt| / alt <= 0.05, for alt > 0
Within5Percent(price, alt) ==
    (IF price >= alt THEN price - alt ELSE alt - price) * 100 <= 5 * alt

C13_FailOpenWithin5Percent ==
    \A v \in VerdictsSeen :
        /\ v.returned \in BOOLEAN
        /\ v.alt > 0 => (v.returned <=> Within5Percent(v.price, v.alt))
        /\ v.alt <= 0 => v.returned
\* a fetch returned after one reconciliation that failed and one that found
\* the price more than 5% off
C13_Witness ==
    /\ last.outcome = "ok"
    /\ \E j, k \in 1..Len(last.verdicts) :
          /\ last.verdicts[j].alt = NoPrice /\ last.verdicts[j].returned
          /\ last.verdicts[k].alt > 0 /\ ~last.verdicts[k].returned

\* C14 (as claimed): a fetch that returns has built one Observation for each
\* item of the response that meets the field constraints.
C14_OneObservationPerWellFormedItem ==
    (last.op = "rt" /\ last.outcome = "ok") => Len(last.out) = last.wellformed

\* ======================================================================
\* Claims about the exchange statistics
\* ======================================================================
\* the step is the end of the task's ticker request, answered or failed
AttemptEnded == pc[SeqTask] = "rt_http" /\ pc'[SeqTask] = "idle"
\* C15 (as claimed): every attempt against an exchange, answered or failed,
\* adds one to that exchange's request counter; an attempt whose call raised
\* adds to its error counter; last_success changes only when the response was
\* received and parsed; the other exchanges' statistics do not change.
C15_EveryAttemptCounted ==
    [][AttemptEnded =>
          LET e == loc[SeqTask].exchange IN
          /\ exchange_stats'[e].requests = exchange_stats[e].requests + 1
          /\ last'.outcome # "ok" => exchange_stats'[e].errors > exchange_stats[e].errors
          /\ exchange_stats'[e].last_success # exchange_stats[e].last_success
                => last'.outcome \in {"ok", "KeyError"}
          /\ \A o \in Supported \ {e} : exchange_stats'[o] = exchange_stats[o]]_vars

\* ======================================================================
\* Claims about DataFetcher.batch_update
\* ======================================================================
\* the slices, in the order fetched, are consecutive runs of the input of at
\* most BATCH_SIZE symbols, starting at the first symbol
InInputOrder(started) ==
    \A k \in 1..Len(started) :
        /\ started[k].lo = (IF k = 1 THEN 1 ELSE started[k - 1].hi + 1)
        /\ started[k].lo <= started[k].hi
        /\ started[k].hi - started[k].lo + 1 <= BATCH_SIZE
\* symbols in the finished slices whose fetch raised
RECURSIVE FailedSymbols(_, _)
FailedSymbols(started, outcomes) ==
    IF outcomes = <<>> THEN 0
    ELSE LET k == Len(outcomes) IN
         FailedSymbols(started, SubSeq(outcomes, 1, k - 1))
         + (IF outcomes[k] = "ok" THEN 0 ELSE started[k].hi - started[k].lo + 1)
FailedSlices(outcomes) == {k \in 1..Len(outcomes) : outcomes[k] # "ok"}
\* what holds of the counters of a running or returned batch_update
Recorded(r) ==
    /\ InInputOrder(r.started)
    /\ r.failed = FailedSymbols(r.started, r.outcomes)
    /\ Len(r.errors) = Cardinality(FailedSlices(r.outcomes))

\* C11: batch_update fetches consecutive slices of at most BATCH_SIZE symbols
\* in input order, with slice k+1 started only after slice k's fetch is over;
\* every slice whose fetch raised adds its size to failed and one entry to
\* errors; the summary is returned only after every slice up to the last symbol
\* was attempted, whatever failed before, and its total is the number of
\* symbols.
C11_BatchesInOrder ==
    LET b == bloc[BatchTask] IN
    /\ b.phase # "none" =>
          /\ Recorded(b)
          /\ Len(b.outcomes) = Len(b.started) - (IF b.phase = "fetch" THEN 1 ELSE 0)
          /\ b.started[Len(b.started)].hi <= b.n
    /\ pc[BatchTask] # "idle" => b.phase = "fetch"
    /\ blast.status = "done" =>
          /\ Recorded(blast)
          /\ Len(blast.outcomes) = Len(blast.started)
          /\ blast.started[Len(blast.started)].hi = blast.total
          /\ blast.total > 0
\* a summary of three slices, the first of which failed and a later one did not
C11_Witness ==
    /\ blast.status = "done"
    /\ blast.total > 2 * BATCH_SIZE
    /\ blast.outcomes[1] # "ok"
    /\ \E k \in 2..Len(blast.outcomes) : blast.outcomes[k] = "ok"
    /\ blast.failed >= BATCH_SIZE

\* ======================================================================
\* Claims about MarketData.validate_price
\* ======================================================================
InRange(price) == 0 < price /\ price < PRICE_LIMIT
\* the window is long enough for the z-score and all its points are equal
ZeroDeviation(window) ==
    /\ Len(window) >= ANOMALY_DETECTION_WINDOW
    /\ \A i \in 1..Len(window) : window[i] = window[1]

\* C16: every validate_price call - whatever the observation's price, with
\* previous_price absent, 0 or a price, with no window, a short one, or one
\* of 24 or more points whose standard deviation is 0 - returns True or
\* False, raises nothing, and leaves the observation's price as it was.
C16_TotalPurePredicate ==
    vp.called => /\ vp.result \in {"True", "False"}
                 /\ vp.after = vp.price

\* a call with previous_price = 0 on a window of equal points that got past
\* the range check and returned a boolean
C16_Witness ==
    /\ vp.called
    /\ InRange(vp.price)
    /\ vp.previous_price = 0
    /\ ZeroDeviation(vp.historical_prices)
    /\ vp.price # vp.historical_prices[1]
    /\ vp.result = "False"

\* C17: with a previous price given (and positive), validate_price returns
\* False whenever the price moved by more than 25% of it; a move of exactly
\* 25% is accepted when the price is in range and no window is given.
C17_RejectsAboveQuarterChange ==
    LET d == IF vp.price >= vp.previous_price THEN vp.price - vp.previous_price
             ELSE vp.previous_price - vp.price
    IN  (vp.called /\ vp.previous_price > 0) =>
            /\ 4 * d > vp.previous_price => vp.result = "False"
            /\ (4 * d = vp.previous_price /\ InRange(vp.price)
                    /\ vp.historical_prices = <<>>) => vp.result = "True"

\* a call whose price is exactly 25% above the previous one, accepted
C17_Witness ==
    /\ vp.called
    /\ vp.previous_price = 100
    /\ vp.price = 125
    /\ vp.historical_prices = <<>>
    /\ vp.result = "True"

\* ======================================================================
\* Claims about PredictionService.get_risk_metrics and analyze_trend
\* ======================================================================
AnalysisDone(op) == an.phase = "done" /\ an.op = op
Reported == an.phase = "done" /\ an.result.outcome = "report"

\* C18 (as claimed): get_risk_metrics and analyze_trend raise on an empty
\* series, and no report they return - however short the series is for the
\* requested windows and indicators - holds a nan metric.
C18_NoUndefinedMetric ==
    /\ (an.phase = "done" /\ an.closes = <<>>) => an.result.outcome = "raise"
    /\ Reported => \A f \in DOMAIN an.result.metrics : ~IsNaN(an.result.metrics[f])

\* C19 (as claimed): on 90 equal daily closes get_risk_metrics returns a
\* report in which, for every window, VaR, CVaR, volatility, max_drawdown
\* and the Sharpe ratio are all 0.
C19_FlatSeriesAllZero ==
    (AnalysisDone("get_risk_metrics") /\ an.closes = Closes("flat", 90)) =>
        /\ an.result.outcome = "report"
        /\ \A key \in DOMAIN an.result.metrics : an.result.metrics[key] = Num(0)

\* C20 (as claimed): the risk_score of every report get_risk_metrics returns
\* is a number between 0 and 100.
C20_RiskScoreInRange ==
    (AnalysisDone("get_risk_metrics") /\ Reported) =>
        /\ an.result.risk_score.k = "num"
        /\ 0 <= an.result.risk_score.v
        /\ an.result.risk_score.v <= 100 * SCALE

\* C21: in every report of get_risk_metrics, for every window, CVaR(95) is
\* at most VaR(95) and CVaR(99) is at most CVaR(95).
C21_CVaROrdered ==
    (AnalysisDone("get_risk_metrics") /\ Reported) =>
        \A w \in an.windows :
            LET m == an.result.metrics IN
            /\ m[<<w, "cvar_95">>].k = "num" /\ m[<<w, "cvar_99">>].k = "num"
            /\ m[<<w, "var_95">>].k = "num"
            /\ m[<<w, "cvar_95">>].v <= m[<<w, "var_95">>].v
            /\ m[<<w, "cvar_99">>].v <= m[<<w, "cvar_95">>].v

\* a report with a window whose tail means lie strictly below the cutoffs
C21_Witness ==
    /\ AnalysisDone("get_risk_metrics") /\ Reported
    /\ \E w \in an.windows :
           LET m == an.result.metrics IN
           /\ m[<<w, "cvar_95">>].v < m[<<w, "var_95">>].v
           /\ m[<<w, "cvar_99">>].v < m[<<w, "cvar_95">>].v

\* C22: analyze_trend reports 'bullish' exactly when price > short MA(10) >
\* long MA(30), 'bearish' exactly when price < short MA(10) < long MA(30),
\* and 'neutral' otherwise, also when a moving average is undefined; a
\* neutral trend has strength 0, and the strength is always within [0, 100].
C22_DirectionAndStrength ==
    LET short_ma == RollingMean(an.closes, 10)
        long_ma == RollingMean(an.closes, 30)
        price == Num(an.closes[Len(an.closes)] * SCALE)
        up == FGt(price, short_ma) /\ FGt(short_ma, long_ma)
        down == FGt(short_ma, price) /\ FGt(long_ma, short_ma)
        strength == an.result.metrics["strength"]
    IN  (AnalysisDone("analyze_trend") /\ Reported) =>
            /\ an.result.direction = "bullish" <=> up
            /\ an.result.direction = "bearish" <=> down
            /\ an.result.direction = "neutral" <=> ~up /\ ~down
            /\ an.result.direction = "neutral" => strength = Num(0)
            /\ strength.k = "num" /\ 0 <= strength.v /\ strength.v <= 100 * SCALE

\* a bullish report whose strength was cut to 100
C22_Witness ==
    /\ AnalysisDone("analyze_trend") /\ Reported
    /\ an.result.direction = "bullish"
    /\ an.result.metrics["strength"] = Num(100 * SCALE)

\* C23 (as claimed): a report of analyze_trend called with an empty list of
\* indicators has confidence 0.5, and every confidence is within [0, 1].
C23_ConfidenceHalfWithoutIndicators ==
    (AnalysisDone("analyze_trend") /\ Reported) =>
        /\ an.requested = {} => an.result.metrics["confidence"] = Num(SCALE \div 2)
        /\ an.result.metrics["confidence"].k = "num"
        /\ 0 <= an.result.metrics["confidence"].v
        /\ an.result.metrics["confidence"].v <= SCALE

\* C24 (as claimed): the analysis_quality of every analyze_trend report is
\* min(number of candles / 90, 1), so never above 1.
C24_QualityCappedAtOne ==
    (AnalysisDone("analyze_trend") /\ Reported) =>
        an.result.metrics["analysis_quality"] =
            Num(Min((Len(an.closes) * SCALE) \div 90, SCALE))

\* C25 (as claimed): in every report of get_risk_metrics the metrics of a
\* window W are computed over W returns whenever the exchange had W + 1
\* closes to give (it answered more than W closes, or as many as were asked).
C25_WindowUsesWReturns ==
    (AnalysisDone("get_risk_metrics") /\ Reported) =>
        \A w \in an.windows :
            (Len(an.closes) >= w + 1 \/ Len(an.closes) = an.limit) =>
                an.result.samples[w] = w

\* C26 (as claimed): for every non-empty list of windows, get_risk_metrics on
\* a series of two or more closes returns a report with one entry per window.
C26_ReportForEveryWindowList ==
    (AnalysisDone("get_risk_metrics") /\ Len(an.closes) >= 2) =>
        /\ Reported
        /\ DOMAIN an.result.metrics = an.windows \X RiskFields

\* ======================================================================
\* Claims about concurrent calls on one DataFetcher
\* ======================================================================
\* the increments to counter c of exchange e made so far by the running calls
Running(e, c) ==
    LET of(p) == IF loc[p].op = "rt" /\ loc[p].exchange = e THEN loc[p][c] ELSE 0
    IN  of(1) + of(2)

C28_OverlapKeepsSessions ==
    /\ \A p \in Procs :
          /\ pc[p] \in {"rt_http", "xv_http", "hist_http"} =>
                sessions[loc[p].sess] = "open"
          /\ block[p] # 0 => session # 0
    /\ (\A p \in Procs : block[p] = 0) =>
          \A i \in 1..Len(sessions) : sessions[i] = "closed"

C30_NoFailFastFromOtherExchange ==
    [][(CallStarted /\ last'.outcome = "CircuitBreakerError") =>
          <<last'.op, last'.exchange>> \in hist.failed_calls]_vars

\* ======================================================================
\* Claims about PredictionService.predict_price
\* ======================================================================
\* the step starts a predict_price call of task p
PredictStarted(p) == npred' = npred + 1 /\ (plast'.task = p \/ ploc'[p] # ploc[p])
\* key and use_cache of the call task p started in this step
StartedArgs(p) == IF plast'.task = p THEN plast' ELSE ploc'[p]
\* the step issued no request, opened no session and took no slot
NoFetchStep == pc' = pc /\ sessions' = sessions /\ rate_limiters' = rate_limiters
\* keys whose horizon and confidence level are both in the enumerations
ValidKeys ==
    {CacheKey(sym, h, c) : sym \in Symbols, h \in HorizonArgs \cap PREDICTION_HORIZONS,
                           c \in ConfidenceArgs \cap CONFIDENCE_LEVELS_PCT}

\* C5 (as claimed): a call is answered from the cache only if the entry is
\* younger than CACHE_TTL seconds, whatever its age, ages over a day included.
C5_HitOnlyWhenYoungerThanTtl ==
    [][plast'.outcome = "hit" =>
          now - prediction_cache[plast'.key].timestamp < CACHE_TTL]_vars

\* C6: a use_cache call started less than CACHE_TTL seconds after the latest
\* use_cache computation for the same key returned gets exactly the result that
\* computation returned, with no history fetch and no predictor invocation.
C6_RepeatWithinTtlIdentical ==
    [][\A p \in Procs, k \in ValidKeys :
          (/\ PredictStarted(p)
           /\ StartedArgs(p).key = k
           /\ StartedArgs(p).use_cache
           /\ phist[k] # NoStored
           /\ now - phist[k].done < CACHE_TTL)
          => /\ plast'.task = p
             /\ plast'.outcome = "hit"
             /\ plast'.data = phist[k].data
             /\ ~plast'.fetched /\ ~plast'.predicted
             /\ NoFetchStep]_vars
\* a second call made some time after the first, within the TTL, was answered
\* with the first one's result
C6_Witness ==
    /\ plast.outcome = "hit"
    /\ plast.data = phist[plast.key].data
    /\ now > phist[plast.key].done
    /\ now - phist[plast.key].done < CACHE_TTL

\* C7 (as claimed): every successful computation stores its result under its
\* key, whatever use_cache is.
C7_AlwaysWritesCache ==
    [][plast'.outcome = "computed" =>
          prediction_cache'[plast'.key] = [data |-> plast'.data, timestamp |-> now]]_vars
\* C7 (amended): a successful computation stores its result under its key when
\* use_cache is true and leaves the cache untouched when use_cache is false;
\* no other step changes the cache, so a later use_cache call is never
\* answered with the result of a use_cache=false computation.
C7_WritesCacheOnlyWithUseCache ==
    [][/\ (plast'.outcome = "computed" /\ plast'.use_cache) =>
             prediction_cache' = [prediction_cache EXCEPT ![plast'.key] =
                                     [data |-> plast'.data, timestamp |-> now]]
       /\ (plast'.outcome # "computed" \/ ~plast'.use_cache) =>
             prediction_cache' = prediction_cache
       /\ plast'.outcome = "hit" => plast'.data = phist[plast'.key].data]_vars
\* a use_cache=false computation succeeded and its result is not in the cache
C7_Witness ==
    /\ plast.outcome = "computed"
    /\ ~plast.use_cache
    /\ plast.fetched /\ plast.predicted
    /\ prediction_cache[plast.key].data # plast.data

====
